---- MODULE Spec2Model ----
(***************************************************************************)
(* A model of the M-Pesa client of src/src/mpesa.ts: the constructor with  *)
(* its configuration validation and secret derivation, the token fetch,    *)
(* the request dispatcher and the fourteen public methods, run by          *)
(* concurrent callers against a server whose answers are nondeterministic. *)
(*                                                                         *)
(* JavaScript values are strings.  Undefined stands for a missing value    *)
(* (undefined, null); "" is the empty string.  Both are falsy.             *)
(***************************************************************************)
EXTENDS Integers, Sequences, FiniteSets, TLC

VARIABLES
    config,   \* the configuration object handed to the constructor
    certificate, \* what reading the bundled certificate and encrypting with it does
    client,   \* the Mpesa instance: its readonly fields, or how construction ended
    calls,    \* per caller: the invocation it has in progress on the client
    phone     \* a call of formatPhoneNumber: its argument and what it returned

vars == <<config, certificate, client, calls, phone>>

-----------------------------------------------------------------------------
(* Bounds of the model *)

\* the wall clock runs over 0..MaxClock (seconds)
MaxClock == 1

\* an invocation is given at most this many falsy arguments
MaxMissing == 1

\* a configuration object has at most this many falsy fields
MaxBadFields == 2

\* a phone number given as a string has at most this many characters
MaxPhoneLen == 12

-----------------------------------------------------------------------------
(* JavaScript values *)

Undefined == "<undefined>"

FalsyValues == {Undefined, ""}

Falsy(v) == v \in FalsyValues

\* a || b
Or(a, b) == IF Falsy(a) THEN b ELSE a

Min(S) == CHOOSE x \in S : \A y \in S : x <= y

Times == 0..MaxClock

-----------------------------------------------------------------------------
(* Construction: src/src/mpesa.ts:23-84 *)

TopKeys == <<"env", "credentials", "appInfo", "businessShortCode", "shortCodeType", "requester">>

CredentialKeys == <<"passKey", "initiatorPass", "initiatorName">>

AppInfoKeys == <<"consumerKey", "consumerSecret">>

Range(s) == {s[i] : i \in 1..Len(s)}

\* keys.forEach(key => { if (!obj[key]) throw ... }): the first falsy key, if any
FirstFalsy(keys, obj) ==
    LET bad == {i \in 1..Len(keys) : Falsy(obj[keys[i]])}
    IN  IF bad = {} THEN Undefined ELSE keys[Min(bad)]

\* validateConfig without its loop over the appInfo keys
ValidateConfigLax(cfg) ==
    LET top == FirstFalsy(TopKeys, cfg.top)
        cred == FirstFalsy(CredentialKeys, cfg.credentials)
    IN  IF top # Undefined
        THEN "Missing required configuration parameter: " \o top
        ELSE IF cred # Undefined
        THEN "Missing required credentials parameter: " \o cred
        ELSE Undefined

\* validateConfig: the message it throws, or Undefined when it returns
ValidateConfig(cfg) ==
    LET top == FirstFalsy(TopKeys, cfg.top)
        cred == FirstFalsy(CredentialKeys, cfg.credentials)
        app == FirstFalsy(AppInfoKeys, cfg.appInfo)
    IN  IF top # Undefined
        THEN "Missing required configuration parameter: " \o top
        ELSE IF cred # Undefined
        THEN "Missing required credentials parameter: " \o cred
        ELSE IF app # Undefined
        THEN "Missing required appInfo parameter: " \o app
        ELSE Undefined

\* Buffer.from(s).toString('base64')
Base64(s) == "base64(" \o s \o ")"

\* new Date().toISOString().replace(/[^0-9]/g, '').slice(0, 14) at second t
TimeStampAt(t) == "202501010000" \o (IF t < 10 THEN "0" ELSE "") \o ToString(t)

\* generatePassword
GeneratePassword(businessShortCode, passKey, timeStamp) ==
    Base64(businessShortCode \o passKey \o timeStamp)

CertificateFor(environment) ==
    IF environment = "production" THEN "ProductionCertificate.cer" ELSE "SandboxCertificate.cer"

\* what reading the certificate and encrypting with it can do
CertStates == {"ok", "unreadable", "rejected"}

\* generateSecurityCredential, when the certificate is read and accepted
GenerateSecurityCredential(environment, initiatorPass) ==
    Base64("rsa(" \o CertificateFor(environment) \o "," \o initiatorPass \o ")")

BaseUrl(env) ==
    IF env = "production" THEN "https://api.safaricom.co.ke" ELSE "https://sandbox.safaricom.co.ke"

NoClient == [state |-> "none"]

\* new Mpesa(cfg) at second t, with the certificate file in state cert
Construct(cfg, t, cert) ==
    LET missing == ValidateConfig(cfg)
        stamp == TimeStampAt(t)
    IN  IF missing # Undefined
        THEN [state |-> "threw", error |-> "MpesaException", message |-> missing]
        ELSE IF cert = "unreadable"
        THEN [state |-> "threw", error |-> "Error",
              message |-> "ENOENT: no such file or directory"]
        ELSE IF cert = "rejected"
        THEN [state |-> "threw", error |-> "Error",
              message |-> "error:public encrypt failed"]
        ELSE [state |-> "constructed",
              environment |-> cfg.top["env"],
              requester |-> cfg.top["requester"],
              timeStamp |-> stamp,
              shortCodeType |-> cfg.top["shortCodeType"],
              passKey |-> cfg.credentials["passKey"],
              businessShortCode |-> cfg.top["businessShortCode"],
              baseUrl |-> BaseUrl(cfg.top["env"]),
              consumerSecret |-> cfg.appInfo["consumerSecret"],
              initiatorName |-> cfg.credentials["initiatorName"],
              initiatorPass |-> cfg.credentials["initiatorPass"],
              consumerKey |-> cfg.appInfo["consumerKey"],
              shortCodePassword |->
                  GeneratePassword(cfg.top["businessShortCode"],
                                   cfg.credentials["passKey"], stamp),
              securityCredential |->
                  GenerateSecurityCredential(cfg.top["env"],
                                             cfg.credentials["initiatorPass"])]

\* a value each configuration field has when it is given
GivenTop ==
    [k \in Range(TopKeys) |->
        CASE k = "env" -> {"sandbox", "production"}
          [] k = "credentials" -> {"[object]"}
          [] k = "appInfo" -> {"[object]"}
          [] k = "businessShortCode" -> {"174379"}
          [] k = "shortCodeType" -> {"till", "paybill"}
          [] k = "requester" -> {"254700000000"}]

GivenCredentials ==
    [k \in Range(CredentialKeys) |->
        CASE k = "passKey" -> {"bfb279"}
          [] k = "initiatorPass" -> {"Safaricom999"}
          [] k = "initiatorName" -> {"testapi"}]

GivenAppInfo ==
    [k \in Range(AppInfoKeys) |->
        CASE k = "consumerKey" -> {"key"}
          [] k = "consumerSecret" -> {"secret"}]

\* the falsy values a field of an object can hold: a sub-object is missing or given
FalsyFor(k) == IF k \in {"credentials", "appInfo"} THEN {Undefined} ELSE FalsyValues

BadCount(cfg) ==
    Cardinality({k \in Range(TopKeys) : Falsy(cfg.top[k])})
    + Cardinality({k \in Range(CredentialKeys) : Falsy(cfg.credentials[k])})
    + Cardinality({k \in Range(AppInfoKeys) : Falsy(cfg.appInfo[k])})

\* a missing sub-object has no fields
WellFormed(cfg) ==
    /\ cfg.top["credentials"] = Undefined =>
           \A k \in Range(CredentialKeys) : cfg.credentials[k] = Undefined
    /\ cfg.top["appInfo"] = Undefined =>
           \A k \in Range(AppInfoKeys) : cfg.appInfo[k] = Undefined

Objects(keys, given) ==
    {o \in [Range(keys) -> UNION {given[k] \cup FalsyValues : k \in Range(keys)}] :
        \A k \in Range(keys) : o[k] \in given[k] \cup FalsyFor(k)}

\* the configuration objects a caller may pass
Configs ==
    {cfg \in [top : Objects(TopKeys, GivenTop),
              credentials : Objects(CredentialKeys, GivenCredentials),
              appInfo : Objects(AppInfoKeys, GivenAppInfo)] :
        /\ WellFormed(cfg)
        /\ LET own == BadCount(cfg)
                      - (IF cfg.top["credentials"] = Undefined THEN Len(CredentialKeys) ELSE 0)
                      - (IF cfg.top["appInfo"] = Undefined THEN Len(AppInfoKeys) ELSE 0)
           IN  own <= MaxBadFields}

\* the configurations the declared type MpesaConfig admits with every field given
ValidConfigs == {cfg \in Configs : BadCount(cfg) = 0}

-----------------------------------------------------------------------------
(* The public methods: their parameters, checks, endpoints and payloads *)

Callers == {"c1", "c2"}

Methods ==
    {"getBusinessName", "stkPush", "queryOrgInfo", "generateQRCode", "stkPushQuery",
     "registerUrl", "initiateB2C", "transactionStatus", "accountBalance",
     "reverseTransaction", "taxRemittance", "initiateB2B",
     "initiateB2BExpressCheckout", "mpesaRatiba"}

\* the thirteen business operations; getBusinessName is a convenience over queryOrgInfo
BusinessMethods == Methods \ {"getBusinessName"}

\* the parameters a signature declares without a default value
Params(m) ==
    CASE m = "getBusinessName" -> <<>>
      [] m = "stkPush" -> <<"amount", "phoneNumber", "accountNumber", "callBackUrl">>
      [] m = "queryOrgInfo" -> <<"type", "shortCode">>
      [] m = "generateQRCode" -> <<"amount", "accountNumber">>
      [] m = "stkPushQuery" -> <<"checkoutRequestCode">>
      [] m = "registerUrl" -> <<"responseType", "confirmationUrl", "validationUrl">>
      [] m = "initiateB2C" -> <<"amount", "phoneNumber", "commandID", "resultUrl">>
      [] m = "transactionStatus" -> <<"transactionID", "resultUrl">>
      [] m = "accountBalance" -> <<"resultUrl">>
      [] m = "reverseTransaction" -> <<"amount", "transactionID", "resultUrl">>
      [] m = "taxRemittance" -> <<"amount", "paymentRegistrationNo", "resultUrl">>
      [] m = "initiateB2B" ->
             <<"amount", "paymentType", "shortCode", "accountNumber", "resultUrl">>
      [] m = "initiateB2BExpressCheckout" ->
             <<"amount", "receiverShortCode", "callBackUrl", "partnerName">>
      [] m = "mpesaRatiba" ->
             <<"amount", "phoneNumber", "accountReference", "startDate", "endDate",
               "standingOrderName", "callBackUrl">>

\* the checks a method makes on entry, in the order it makes them
Checks(m) ==
    CASE m = "stkPush" ->
             << <<"phoneNumber", "Phone number is required">>,
                <<"amount", "Amount is required">>,
                <<"accountNumber", "Account Number is required">>,
                <<"callBackUrl", "Callback url is required">> >>
      [] m = "generateQRCode" -> << <<"amount", "Amount is required">> >>
      [] m = "stkPushQuery" ->
             << <<"checkoutRequestCode", "Checkout request code is required">> >>
      [] m = "registerUrl" ->
             << <<"confirmationUrl", "Confirmation url is required">>,
                <<"validationUrl", "Validation url is required">> >>
      [] m = "initiateB2C" ->
             << <<"amount", "Amount is required">>,
                <<"phoneNumber", "Phone number is required">>,
                <<"resultUrl", "Result URL is required">> >>
      [] m = "transactionStatus" ->
             << <<"transactionID", "Transaction ID is required">>,
                <<"resultUrl", "Result Url is required">> >>
      [] m = "accountBalance" -> << <<"resultUrl", "Result Url is required">> >>
      [] m = "reverseTransaction" ->
             << <<"transactionID", "Transaction ID is required">>,
                <<"amount", "Amount is required">>,
                <<"resultUrl", "Result Url is required">> >>
      [] m = "taxRemittance" ->
             << <<"paymentRegistrationNo", "Payment Registration No is required">>,
                <<"amount", "Amount is required">>,
                <<"resultUrl", "Result Url is required">> >>
      [] m = "initiateB2B" ->
             << <<"shortCode", "Short code is required">>,
                <<"amount", "Amount is required">>,
                <<"resultUrl", "Result Url is required">> >>
      [] m = "initiateB2BExpressCheckout" ->
             << <<"amount", "Amount is required">>,
                <<"receiverShortCode", "Short code is required">>,
                <<"partnerName", "Partner Name is required">>,
                <<"callBackUrl", "Callback Url is required">> >>
      [] m = "mpesaRatiba" ->
             << <<"amount", "Amount is required">>,
                <<"phoneNumber", "Phone number is required">>,
                <<"accountReference", "Account reference is required">>,
                <<"callBackUrl", "Callback Url is required">>,
                <<"startDate", "Start Date is required">>,
                <<"endDate", "End Date is required">>,
                <<"standingOrderName", "Standing Order Name is required">> >>
      [] OTHER -> <<>>

\* the message of the first check that fails, or Undefined when all pass
ValidationError(m, a) ==
    LET cs == Checks(m)
        bad == {i \in 1..Len(cs) : Falsy(a[cs[i][1]])}
    IN  IF bad = {} THEN Undefined ELSE cs[Min(bad)][2]

Endpoint(m) ==
    CASE m = "stkPush" -> "mpesa/stkpush/v1/processrequest"
      [] m = "queryOrgInfo" -> "sfcverify/v1/query/info"
      [] m = "generateQRCode" -> "mpesa/qrcode/v1/generate"
      [] m = "stkPushQuery" -> "mpesa/stkpushquery/v1/query"
      [] m = "registerUrl" -> "mpesa/c2b/v2/registerurl"
      [] m = "initiateB2C" -> "mpesa/b2c/v1/paymentrequest"
      [] m = "transactionStatus" -> "mpesa/transactionstatus/v1/query"
      [] m = "accountBalance" -> "mpesa/accountbalance/v1/query"
      [] m = "reverseTransaction" -> "mpesa/reversal/v1/request"
      [] m = "taxRemittance" -> "mpesa/b2b/v1/remittax"
      [] m = "initiateB2B" -> "mpesa/b2b/v1/paymentrequest"
      [] m = "initiateB2BExpressCheckout" -> "v1/ussdpush/get-msisdn"
      [] m = "mpesaRatiba" -> "mpesa/standingorders/v1/create"

\* formatPhoneNumber that keeps the first character of a ten-character number
FormatPhoneNumberKeepFirst(phoneNumber) ==
    IF Falsy(phoneNumber) THEN Undefined
    ELSE CASE Len(phoneNumber) = 9 -> "254" \o phoneNumber
           [] Len(phoneNumber) = 10 -> "254" \o phoneNumber
           [] OTHER -> phoneNumber

\* formatPhoneNumber on the text of its argument; null is Undefined
FormatPhoneNumber(phoneNumber) ==
    IF Falsy(phoneNumber) THEN Undefined
    ELSE CASE Len(phoneNumber) = 9 -> "254" \o phoneNumber
           [] Len(phoneNumber) = 10 -> "254" \o SubSeq(phoneNumber, 2, Len(phoneNumber))
           [] OTHER -> phoneNumber

\* an argument of type string | number
StringArg(text) == [type |-> "string", text |-> text, number |-> 0]

NumberArg(number) == [type |-> "number", text |-> "", number |-> number]

\* !phoneNumber
PhoneFalsy(x) == IF x.type = "number" THEN x.number = 0 ELSE Falsy(x.text)

\* phoneNumber.toString()
PhoneToString(x) == IF x.type = "number" THEN ToString(x.number) ELSE x.text

\* formatPhoneNumber(x) for x a string or a number
FormatPhoneArg(x) ==
    IF PhoneFalsy(x) THEN Undefined ELSE FormatPhoneNumber(PhoneToString(x))

\* texts whose leading characters are the phone numbers tried
PhonePatterns ==
    {"0712345678901234", "7123456789012345", "2547123456789012", "+254712345678901",
     "1100000000000000"}

\* the arguments formatPhoneNumber is tried on
PhoneArgs ==
    {StringArg(SubSeq(p, 1, n)) : p \in PhonePatterns, n \in 0..MaxPhoneLen}
    \cup {NumberArg(n) : n \in {0, 7, 71234567, 712345678, 254712345,
                                 1712345678, 2147483647}}

NoPhone == [pc |-> "none", input |-> StringArg(""), output |-> Undefined]

\* the time stamp of a second-t payload, were it taken when the payload is built
PayloadTimestampFresh(cl, t) == TimeStampAt(t)

\* this.timeStamp as the payloads read it; t is the second the method is entered
PayloadTimestamp(cl, t) == cl.timeStamp

\* commandID[paymentType] of initiateB2B
CommandIDOf(paymentType) ==
    CASE paymentType = "PaybillToPaybill" -> "BusinessPayBill"
      [] paymentType = "PaybillToTill" -> "BusinessBuyGoods"
      [] paymentType = "B2BAccountTopUp" -> "BusinessPayToBulk"
      [] OTHER -> Undefined

IdentifierTypeOf(cl) == IF cl.shortCodeType = "paybill" THEN "4" ELSE "2"

\* the payload a method hands to sendRequest; optional parameters take their defaults
Payload(m, a, cl, t, merchantName) ==
    CASE m = "stkPush" ->
             [Amount |-> a["amount"],
              PartyA |-> FormatPhoneNumber(a["phoneNumber"]),
              CallBackURL |-> a["callBackUrl"],
              Timestamp |-> PayloadTimestamp(cl, t),
              TransactionDesc |-> "STK Push Request",
              PhoneNumber |-> FormatPhoneNumber(a["phoneNumber"]),
              PartyB |-> cl.businessShortCode,
              AccountReference |-> a["accountNumber"],
              TransactionType |-> "CustomerPayBillOnline",
              BusinessShortCode |-> cl.businessShortCode,
              Password |-> cl.shortCodePassword]
      [] m = "generateQRCode" ->
             [MerchantName |-> merchantName,
              RefNo |-> a["accountNumber"],
              Amount |-> a["amount"],
              TrxCode |-> IF cl.shortCodeType = "paybill" THEN "PB" ELSE "BG",
              CPI |-> cl.businessShortCode,
              Size |-> "300"]
      [] m = "stkPushQuery" ->
             [BusinessShortCode |-> cl.businessShortCode,
              Password |-> cl.shortCodePassword,
              Timestamp |-> PayloadTimestamp(cl, t),
              CheckoutRequestID |-> a["checkoutRequestCode"]]
      [] m = "registerUrl" ->
             [ShortCode |-> cl.businessShortCode,
              ResponseType |-> a["responseType"],
              ConfirmationURL |-> a["confirmationUrl"],
              ValidationURL |-> a["validationUrl"]]
      [] m = "initiateB2C" ->
             [InitiatorName |-> cl.initiatorName,
              SecurityCredential |-> cl.securityCredential,
              CommandID |-> a["commandID"],
              Amount |-> a["amount"],
              PartyA |-> cl.businessShortCode,
              PartyB |-> FormatPhoneNumber(a["phoneNumber"]),
              Remarks |-> "Business Payment",
              QueueTimeOutURL |-> a["resultUrl"],
              ResultURL |-> a["resultUrl"],
              Occasion |-> ""]
      [] m = "transactionStatus" ->
             [Initiator |-> cl.initiatorName,
              SecurityCredential |-> cl.securityCredential,
              CommandID |-> "TransactionStatusQuery",
              TransactionID |-> a["transactionID"],
              PartyA |-> cl.businessShortCode,
              IdentifierType |-> IdentifierTypeOf(cl),
              ResultURL |-> a["resultUrl"],
              QueueTimeOutURL |-> a["resultUrl"],
              Remarks |-> "Transaction Status Query",
              Occasion |-> ""]
      [] m = "accountBalance" ->
             [Initiator |-> cl.initiatorName,
              SecurityCredential |-> cl.securityCredential,
              CommandID |-> "AccountBalance",
              PartyA |-> cl.businessShortCode,
              IdentifierType |-> IdentifierTypeOf(cl),
              ResultURL |-> a["resultUrl"],
              QueueTimeOutURL |-> a["resultUrl"],
              Remarks |-> "Account Balance Query",
              Occasion |-> ""]
      [] m = "reverseTransaction" ->
             [Initiator |-> cl.initiatorName,
              SecurityCredential |-> cl.securityCredential,
              CommandID |-> "TransactionReversal",
              TransactionID |-> a["transactionID"],
              Amount |-> a["amount"],
              ReceiverParty |-> cl.businessShortCode,
              RecieverIdentifierType |-> "11",
              ResultURL |-> a["resultUrl"],
              QueueTimeOutURL |-> a["resultUrl"],
              Remarks |-> "Transaction Reversal",
              Occasion |-> ""]
      [] m = "taxRemittance" ->
             [Initiator |-> cl.initiatorName,
              SecurityCredential |-> cl.securityCredential,
              CommandID |-> "PayTaxToKRA",
              SenderIdentifierType |-> "4",
              RecieverIdentifierType |-> "4",
              Amount |-> a["amount"],
              PartyA |-> cl.businessShortCode,
              PartyB |-> "572572",
              AccountReference |-> a["paymentRegistrationNo"],
              Remarks |-> "Tax Remittance",
              QueueTimeOutURL |-> a["resultUrl"],
              ResultURL |-> a["resultUrl"]]
      [] m = "initiateB2B" ->
             [Initiator |-> cl.initiatorName,
              SecurityCredential |-> cl.securityCredential,
              CommandID |-> CommandIDOf(a["paymentType"]),
              SenderIdentifierType |-> "4",
              RecieverIdentifierType |-> "4",
              Amount |-> a["amount"],
              PartyA |-> cl.businessShortCode,
              PartyB |-> a["shortCode"],
              AccountReference |-> a["accountNumber"],
              Requester |-> cl.requester,
              Remarks |-> "OK",
              QueueTimeOutURL |-> a["resultUrl"],
              ResultURL |-> a["resultUrl"]]
      [] m = "initiateB2BExpressCheckout" ->
             [PrimaryPartyCode |-> cl.businessShortCode,
              ReceiverPartyCode |-> a["receiverShortCode"],
              Amount |-> a["amount"],
              CallBackUrl |-> a["callBackUrl"],
              RequestRefID |-> "B2B_" \o ToString(t),
              PaymentRef |-> "PAYREFID_" \o ToString(t),
              PartnerName |-> a["partnerName"]]
      [] m = "mpesaRatiba" ->
             [StandingOrderName |-> a["standingOrderName"],
              StartDate |-> a["startDate"],
              EndDate |-> a["endDate"],
              BusinessShortCode |-> cl.businessShortCode,
              TransactionType |->
                  IF cl.shortCodeType = "paybill"
                  THEN "Standing Order Customer Pay Bill"
                  ELSE "Standing Order Customer Pay Marchant",
              ReceiverPartyIdentifierType |-> IdentifierTypeOf(cl),
              Amount |-> a["amount"],
              PartyA |-> FormatPhoneNumber(a["phoneNumber"]),
              CallBackURL |-> a["callBackUrl"],
              AccountReference |-> a["accountReference"],
              TransactionDesc |-> "Payment to " \o cl.businessShortCode,
              Frequency |-> "2",
              Password |-> cl.shortCodePassword,
              Timestamp |-> PayloadTimestamp(cl, t)]

\* the payload of queryOrgInfo with the two identifier types exchanged
OrgInfoPayloadSwapped(type, shortCode) ==
    [IdentifierType |-> IF type = "till" THEN 4 ELSE 2, Identifier |-> shortCode]

\* the payload of queryOrgInfo
OrgInfoPayload(type, shortCode) ==
    [IdentifierType |-> IF type = "till" THEN 2 ELSE 4, Identifier |-> shortCode]

-----------------------------------------------------------------------------
(* The server's answers and the HTTP transport *)

\* a response body without content (null, empty)
NullBody == [null |-> TRUE]

Body(rm, em, rd, on) ==
    [ResponseMessage |-> rm, errorMessage |-> em, ResponseDescription |-> rd,
     OrganizationName |-> on]

Bodies ==
    {NullBody,
     Body(Undefined, Undefined, "Success", "Acme Ltd"),
     Body("Invalid Amount", Undefined, Undefined, Undefined),
     Body(Undefined, "Bad Request", "Rejected", Undefined),
     Body(Undefined, Undefined, "Rejected", Undefined),
     Body("Invalid Amount", "Bad Request", Undefined, Undefined)}

HttpStatuses == {200, 201, 400}

\* no answer at all: the transport failed
NetworkError == [kind |-> "neterr", message |-> "Network Error"]

Http(status, data) == [kind |-> "http", status |-> status, data |-> data]

\* what a business endpoint can answer
PostAnswers == {NetworkError} \cup {Http(s, b) : s \in HttpStatuses, b \in Bodies}

NoAnswer == [kind |-> "none"]

\* what the token endpoint can answer; token is the token it would issue
TokenAnswers(token) ==
    {NetworkError,
     Http(401, [access_token |-> Undefined]),
     Http(200, NullBody),
     Http(200, [access_token |-> Undefined]),
     Http(200, [access_token |-> token])}

\* axios with its default validateStatus: a status outside 2xx rejects
AxiosResolves(ans) == ans.kind = "http" /\ ans.status >= 200 /\ ans.status < 300

\* the message of the error axios rejects with
AxiosErrorMessage(ans) ==
    IF ans.kind = "neterr" THEN ans.message
    ELSE "Request failed with status code " \o ToString(ans.status)

\* error.response?.data?.<field> of the error axios rejects with
ErrorDataField(ans, field) ==
    IF ans.kind = "neterr" \/ ans.data = NullBody THEN Undefined
    ELSE IF field = "errorMessage" THEN ans.data.errorMessage
    ELSE ans.data.ResponseDescription

\* generateAccessToken on a failed fetch hands back no token instead of throwing
GenerateAccessTokenLenient(ans) ==
    IF AxiosResolves(ans) /\ ans.data # NullBody /\ ~Falsy(ans.data.access_token)
    THEN [threw |-> FALSE, token |-> ans.data.access_token]
    ELSE [threw |-> FALSE, token |-> Undefined]

\* generateAccessToken once the GET is answered: the token, or the message thrown
GenerateAccessToken(ans) ==
    IF ~AxiosResolves(ans)
    THEN [threw |-> TRUE,
          message |-> "Failed to generate access token: " \o AxiosErrorMessage(ans)]
    ELSE IF ans.data = NullBody
    THEN [threw |-> TRUE,
          message |-> "Failed to generate access token: "
                      \o "Cannot read properties of null (reading 'access_token')"]
    ELSE IF ~Falsy(ans.data.access_token)
    THEN [threw |-> FALSE, token |-> ans.data.access_token]
    ELSE [threw |-> TRUE,
          message |-> "Failed to generate access token: "
                      \o "Failed to generate access token"]

\* the messages generateAccessToken can throw
TokenFailureMessages ==
    {"Failed to generate access token: " \o d :
        d \in {"Network Error", "Request failed with status code 401",
               "Cannot read properties of null (reading 'access_token')",
               "Failed to generate access token", "Unknown error"}}

NoDispatch == [kind |-> "none"]

\* sendRequest preferring ResponseDescription to errorMessage in its catch
DispatchDescriptionFirst(ans) ==
    IF AxiosResolves(ans)
    THEN [kind |-> "return", response |-> ans.data, httpCode |-> ans.status]
    ELSE [kind |-> "throw",
          message |-> Or(Or(ErrorDataField(ans, "ResponseDescription"),
                            ErrorDataField(ans, "errorMessage")),
                         AxiosErrorMessage(ans))]

\* sendRequest once the POST is answered: {response, httpCode}, or the message thrown
Dispatch(ans) ==
    IF AxiosResolves(ans)
    THEN [kind |-> "return", response |-> ans.data, httpCode |-> ans.status]
    ELSE [kind |-> "throw",
          message |-> Or(Or(ErrorDataField(ans, "errorMessage"),
                            ErrorDataField(ans, "ResponseDescription")),
                         AxiosErrorMessage(ans))]

NoOutcome == [kind |-> "none"]

Throw(message) == [kind |-> "throw", error |-> "MpesaException", message |-> message]

Ok(value) == [kind |-> "ok", value |-> value]

\* the body is returned with its description stripped
SuccessValueStripped(r) == Ok([r.response EXCEPT !.ResponseDescription = Undefined])

\* return response.response
SuccessValue(r) == Ok(r.response)

\* the checks of stkPush made by every method alike
CheckResponseUniform(m, r) ==
    IF r.response = NullBody THEN Throw("No response received")
    ELSE IF r.httpCode # 200
    THEN Throw(Or(Or(r.response.ResponseMessage, r.response.errorMessage),
                  "Request failed with status " \o ToString(r.httpCode)))
    ELSE SuccessValue(r)

\* the checks a method makes on the envelope sendRequest returned
CheckResponse(m, r) ==
    IF r.response = NullBody THEN Throw("No response received")
    ELSE IF r.httpCode # 200
    THEN LET generic == "Request failed with status " \o ToString(r.httpCode)
         IN  IF m \in {"initiateB2BExpressCheckout", "mpesaRatiba"}
             THEN Throw(Or(r.response.errorMessage, generic))
             ELSE Throw(Or(Or(r.response.ResponseMessage, r.response.errorMessage),
                           generic))
    ELSE SuccessValue(r)

-----------------------------------------------------------------------------
(* An invocation of a public method *)

EmptyArgs == [p \in {} |-> Undefined]

NoData == [none |-> TRUE]

IdleCall ==
    [pc |-> "idle", method |-> "none", args |-> EmptyArgs, cur |-> "none",
     endpoint |-> "", data |-> NoData, log |-> <<>>, resp |-> NoAnswer,
     disp |-> NoDispatch, failedAt |-> 0, outcome |-> NoOutcome]

\* the number of token GETs an invocation has sent
Gets(call) == Cardinality({i \in 1..Len(call.log) : call.log[i].op = "GET"})

\* the token the server issues to the GET in flight: one it issued to no earlier GET
FreshToken(call) == "token-" \o ToString(Gets(call))

GetRequest(cl) ==
    [op |-> "GET",
     url |-> cl.baseUrl \o "/oauth/v1/generate?grant_type=client_credentials",
     authorization |-> "Basic " \o Base64(cl.consumerKey \o ":" \o cl.consumerSecret),
     token |-> Undefined]

\* a POST that carries the first token the invocation was ever given
PostRequestCached(cl, call, accessToken) ==
    LET first == Min({i \in 1..Len(call.log) : call.log[i].op = "GET"})
    IN  [op |-> "POST",
         url |-> cl.baseUrl \o "/" \o call.endpoint,
         authorization |-> "Bearer " \o
             (IF Falsy(call.log[first].token) THEN accessToken ELSE call.log[first].token),
         data |-> call.data,
         answer |-> NoAnswer]

\* the POST of sendRequest
PostRequest(cl, call, accessToken) ==
    [op |-> "POST",
     url |-> cl.baseUrl \o "/" \o call.endpoint,
     authorization |-> "Bearer " \o accessToken,
     data |-> call.data,
     answer |-> NoAnswer]

\* the promise of the invocation settles
Settle(call, outcome) == [call EXCEPT !.pc = "done", !.outcome = outcome]

\* sendRequest(endpoint, data) is entered by method cur: the token GET goes out
StartSend(cl, call, cur, endpoint, data) ==
    [call EXCEPT !.pc = "token", !.cur = cur, !.endpoint = endpoint, !.data = data,
                 !.resp = NoAnswer, !.disp = NoDispatch,
                 !.log = Append(@, GetRequest(cl))]

\* queryOrgInfo(type, shortCode)
QueryOrgInfo(cl, call, type, shortCode) ==
    IF type \notin {"till", "paybill"}
    THEN Settle(call, Throw("Identifier type is not supported"))
    ELSE StartSend(cl, call, "queryOrgInfo", Endpoint("queryOrgInfo"),
                   OrgInfoPayload(type, shortCode))

\* a public method is entered at second t
Enter(cl, m, a, t) ==
    LET call == [IdleCall EXCEPT !.method = m, !.args = a]
        missing == ValidationError(m, a)
    IN  IF missing # Undefined THEN Settle(call, Throw(missing))
        ELSE IF m \in {"getBusinessName", "generateQRCode"}
        THEN QueryOrgInfo(cl, call, cl.shortCodeType, cl.businessShortCode)
        ELSE IF m = "queryOrgInfo"
        THEN QueryOrgInfo(cl, call, a["type"], a["shortCode"])
        ELSE StartSend(cl, call, m, Endpoint(m), Payload(m, a, cl, t, Undefined))

\* a failed token fetch is tried again
TokenFailedRetry(cl, call, message) ==
    [call EXCEPT !.failedAt = Len(call.log), !.log = Append(@, GetRequest(cl))]

\* generateAccessToken threw: the catch of sendRequest rethrows its message
TokenFailed(cl, call, message) ==
    Settle([call EXCEPT !.failedAt = Len(call.log)], Throw(message))

\* the token GET is answered
AfterToken(cl, call, ans) ==
    LET r == GenerateAccessToken(ans)
        got == [call EXCEPT !.log[Len(call.log)].token =
                                IF r.threw THEN Undefined ELSE r.token]
    IN  IF r.threw THEN TokenFailed(cl, got, r.message)
        ELSE [got EXCEPT !.pc = "post", !.log = Append(@, PostRequest(cl, got, r.token))]

\* a failed POST is sent again
PostFailedRetry(cl, call, message) ==
    [call EXCEPT !.failedAt = Len(call.log),
                 !.log = Append(@, call.log[Len(call.log)])]

\* the POST was rejected: the catch of sendRequest throws
PostFailed(cl, call, message) ==
    Settle([call EXCEPT !.failedAt = Len(call.log)], Throw(message))

\* generateQRCode naming the merchant by the ResponseDescription of the query
ReturnedDescription(cl, call, value) ==
    IF call.method = call.cur THEN Settle(call, value)
    ELSE IF call.method = "getBusinessName"
    THEN Settle(call, Ok(value.value.OrganizationName))
    ELSE StartSend(cl, call, "generateQRCode", Endpoint("generateQRCode"),
                   Payload("generateQRCode", call.args, cl, 0,
                           value.value.ResponseDescription))

\* the method running sendRequest returned body to its caller
Returned(cl, call, value) ==
    IF call.method = call.cur THEN Settle(call, value)
    ELSE IF call.method = "getBusinessName"
    THEN Settle(call, Ok(value.value.OrganizationName))
    ELSE StartSend(cl, call, "generateQRCode", Endpoint("generateQRCode"),
                   Payload("generateQRCode", call.args, cl, 0,
                           value.value.OrganizationName))

\* the POST is answered
AfterPost(cl, call, ans) ==
    LET d == Dispatch(ans)
        got == [call EXCEPT !.resp = ans, !.disp = d, !.log[Len(call.log)].answer = ans]
    IN  IF d.kind = "throw" THEN PostFailed(cl, got, d.message)
        ELSE LET o == CheckResponse(call.cur, d)
             IN  IF o.kind = "throw" THEN Settle(got, o) ELSE Returned(cl, got, o)

RECURSIVE ArgsOf(_, _)
\* the arguments for parameters ps, at most k of them falsy
ArgsOf(ps, k) ==
    IF ps = <<>> THEN {EmptyArgs}
    ELSE LET p == ps[1]
             given == CASE p = "type" -> {"till", "paybill", "bank"}
                        [] p = "amount" -> {"100"}
                        [] p = "phoneNumber" -> {"0712345678"}
                        [] p = "paymentType" -> {"PaybillToTill"}
                        [] p = "commandID" -> {"BusinessPayment"}
                        [] OTHER -> {"<" \o p \o ">"}
             ext(a, v) == [q \in DOMAIN a \cup {p} |-> IF q = p THEN v ELSE a[q]]
         IN  {ext(a, v) : a \in ArgsOf(Tail(ps), k), v \in given}
             \cup (IF k = 0 THEN {}
                   ELSE {ext(a, v) : a \in ArgsOf(Tail(ps), k - 1), v \in FalsyValues})

-----------------------------------------------------------------------------
(* The state machine *)

NoCalls == [c \in Callers |-> IdleCall]

\* a settled promise runs its continuation before the event loop takes the next event
Quiescent == \A c \in Callers : calls[c].pc # "done"

Init ==
    /\ config \in ValidConfigs
    /\ certificate = "ok"
    /\ client = Construct(config, 0, certificate)
    /\ calls = NoCalls
    /\ phone = NoPhone

\* caller c calls method m with arguments a
Invoke(c) ==
    /\ Quiescent
    /\ calls[c].pc = "idle"
    /\ \E m \in Methods, t \in Times :
         \E a \in ArgsOf(Params(m), MaxMissing) :
           calls' = [calls EXCEPT ![c] = Enter(client, m, a, t)]
    /\ UNCHANGED <<config, certificate, client, phone>>

\* the token endpoint answers the GET of caller c
TokenResponse(c) ==
    /\ Quiescent
    /\ calls[c].pc = "token"
    /\ \E ans \in TokenAnswers(FreshToken(calls[c])) :
           calls' = [calls EXCEPT ![c] = AfterToken(client, calls[c], ans)]
    /\ UNCHANGED <<config, certificate, client, phone>>

\* a business endpoint answers the POST of caller c
PostResponse(c) ==
    /\ Quiescent
    /\ calls[c].pc = "post"
    /\ \E ans \in PostAnswers :
           calls' = [calls EXCEPT ![c] = AfterPost(client, calls[c], ans)]
    /\ UNCHANGED <<config, certificate, client, phone>>

\* caller c takes the outcome of its invocation
Return(c) ==
    /\ calls[c].pc = "done"
    /\ calls' = [calls EXCEPT ![c] = IdleCall]
    /\ UNCHANGED <<config, certificate, client, phone>>

Next ==
    \E c \in Callers :
        \/ Invoke(c)
        \/ TokenResponse(c)
        \/ PostResponse(c)
        \/ Return(c)

Spec == Init /\ [][Next]_vars

InitCtor ==
    /\ config \in Configs
    /\ certificate \in CertStates
    /\ client = NoClient
    /\ calls = NoCalls
    /\ phone = NoPhone

\* new Mpesa(config)
NewMpesa ==
    /\ client.state = "none"
    /\ \E t \in Times : client' = Construct(config, t, certificate)
    /\ UNCHANGED <<config, certificate, calls, phone>>

NextCtor == NewMpesa

SpecCtor == InitCtor /\ [][NextCtor]_vars

-----------------------------------------------------------------------------
(* Properties *)

Ops(call) == [i \in 1..Len(call.log) |-> call.log[i].op]

Posts(call) == {i \in 1..Len(call.log) : call.log[i].op = "POST"}

\* the token GETs of an invocation that were answered without a token
FailedGets(call) ==
    {i \in 1..Len(call.log) :
        /\ call.log[i].op = "GET"
        /\ Falsy(call.log[i].token)
        /\ ~(i = Len(call.log) /\ call.pc = "token")}

IsPrefix(s, t) == Len(s) <= Len(t) /\ \A i \in 1..Len(s) : s[i] = t[i]

\* C1 as stated: an invocation whose token fetch failed fails with the
\* access-token error and has sent no business POST at all.
C1_NoPostInInvocation ==
    \A c \in Callers :
        FailedGets(calls[c]) # {} =>
            /\ calls[c].pc = "done"
            /\ calls[c].outcome.kind = "throw"
            /\ calls[c].outcome.message \in TokenFailureMessages
            /\ Posts(calls[c]) = {}

\* C1 amended: an invocation whose token fetch failed fails with the
\* access-token error and sends nothing after the failed fetch, so the POST
\* the token was fetched for is never sent; the only POST it can have sent
\* before is the organisation-info query of generateQRCode.
C1_TokenFailureSendsNoPost ==
    \A c \in Callers :
        \A i \in FailedGets(calls[c]) :
            /\ i = Len(calls[c].log)
            /\ calls[c].pc = "done"
            /\ calls[c].outcome.kind = "throw"
            /\ calls[c].outcome.error = "MpesaException"
            /\ calls[c].outcome.message \in TokenFailureMessages
            /\ \A j \in Posts(calls[c]) :
                   /\ calls[c].method = "generateQRCode"
                   /\ calls[c].log[j].url =
                          client.baseUrl \o "/" \o Endpoint("queryOrgInfo")

C1_Witness ==
    \E c \in Callers :
        /\ FailedGets(calls[c]) # {}
        /\ calls[c].method = "generateQRCode"
        /\ Posts(calls[c]) # {}

\* C2: a business call whose POST is answered 400 {ResponseMessage: "Invalid
\* Amount"} fails with the message "Invalid Amount".
C2_InvalidAmountMessage ==
    \A c \in Callers :
        (/\ calls[c].pc = "done"
         /\ calls[c].resp = Http(400, Body("Invalid Amount", Undefined, Undefined, Undefined)))
        => /\ calls[c].outcome.kind = "throw"
           /\ calls[c].outcome.message = "Invalid Amount"

\* the messages of the argument checks
ArgumentErrors ==
    UNION {{Checks(m)[i][2] : i \in 1..Len(Checks(m))} : m \in Methods}
    \cup {"Identifier type is not supported"}

\* C3: a public method given a falsy value for a parameter its signature
\* declares without a default fails with an argument error and sends nothing.
C3_MissingArgumentSendsNothing ==
    \A c \in Callers :
        (/\ calls[c].pc # "idle"
         /\ \E p \in Range(Params(calls[c].method)) : Falsy(calls[c].args[p]))
        => /\ calls[c].log = <<>>
           /\ calls[c].pc = "done"
           /\ calls[c].outcome.kind = "throw"
           /\ calls[c].outcome.message \in ArgumentErrors

\* C4: every POST of an invocation comes right after a token GET of the same
\* invocation that was answered with a token, and carries that token and none
\* an earlier GET of the invocation was given.
C4_OwnTokenPerPost ==
    \A c \in Callers :
        \A i \in Posts(calls[c]) :
            LET log == calls[c].log
            IN  /\ i > 1
                /\ log[i - 1].op = "GET"
                /\ ~Falsy(log[i - 1].token)
                /\ log[i].authorization = "Bearer " \o log[i - 1].token
                /\ \A j \in 1..(i - 2) :
                       log[j].op = "GET" =>
                           log[i].authorization # "Bearer " \o log[j].token

C4_Witness ==
    \E c \in Callers :
        /\ calls[c].pc = "post"
        /\ Cardinality(Posts(calls[c])) = 2

\* C5 as stated: an invocation never sends more than one token GET followed
\* by one POST, and one that returns has sent exactly those two.
C5_TwoRoundTrips ==
    \A c \in Callers :
        /\ IsPrefix(Ops(calls[c]), <<"GET", "POST">>)
        /\ (calls[c].pc = "done" /\ calls[c].outcome.kind = "ok") =>
               Ops(calls[c]) = <<"GET", "POST">>

\* the business endpoints an invocation of m posts to, in order
Legs(m) ==
    CASE m = "generateQRCode" -> <<"queryOrgInfo", "generateQRCode">>
      [] m = "getBusinessName" -> <<"queryOrgInfo">>
      [] OTHER -> <<m>>

\* C5 amended: round-trips come in pairs, token GET then POST, stopping at
\* the first that fails: one pair for every method but generateQRCode, which
\* sends the pair of the organisation-info query and then the pair of the
\* QR-code request.
C5_RoundTripPairs ==
    \A c \in Callers :
        calls[c].pc # "idle" =>
            LET call == calls[c]
                legs == Legs(call.method)
            IN  /\ Len(call.log) <= 2 * Len(legs)
                /\ \A i \in 1..Len(call.log) :
                       IF i % 2 = 1 THEN call.log[i].op = "GET"
                       ELSE /\ call.log[i].op = "POST"
                            /\ call.log[i].url =
                                   client.baseUrl \o "/" \o Endpoint(legs[i \div 2])
                /\ (call.pc = "done" /\ call.outcome.kind = "ok") =>
                       Len(call.log) = 2 * Len(legs)
                /\ call.pc = "token" => call.log[Len(call.log)].op = "GET"
                /\ call.pc = "post" => call.log[Len(call.log)].op = "POST"

C5_Witness ==
    \E c \in Callers :
        /\ calls[c].pc = "done"
        /\ calls[c].outcome.kind = "ok"
        /\ Ops(calls[c]) = <<"GET", "POST", "GET", "POST">>

\* a network call of the invocation failed: a GET answered without a token,
\* or a POST that axios rejected
NetworkFailures(call) ==
    FailedGets(call)
    \cup {i \in Posts(call) :
             /\ i = Len(call.log)
             /\ call.resp.kind # "none"
             /\ ~AxiosResolves(call.resp)}
    \cup (IF call.failedAt > 0 THEN {call.failedAt} ELSE {})

\* C6: after a network call of an invocation fails, the invocation sends
\* nothing more and ends with one error.
C6_NoRetry ==
    \A c \in Callers :
        \A i \in NetworkFailures(calls[c]) :
            /\ i = Len(calls[c].log)
            /\ calls[c].pc = "done"
            /\ calls[c].outcome.kind = "throw"

C6_Witness ==
    \E c \in Callers :
        /\ calls[c].method = "generateQRCode"
        /\ \E i \in NetworkFailures(calls[c]) : calls[c].log[i].op = "POST"

\* C7: the client keeps the values its constructor computed, every payload
\* with a Timestamp or Password carries the constructor's pair, every payload
\* with a SecurityCredential carries the constructor's, and a step of one
\* caller changes neither the client nor another caller's invocation.
C7_ConstructionValuesFixed ==
    /\ [](/\ client = Construct(config, 0, certificate)
          /\ client.shortCodePassword =
                 Base64(client.businessShortCode \o client.passKey \o client.timeStamp)
          /\ \A c \in Callers :
                 \A i \in Posts(calls[c]) :
                     LET data == calls[c].log[i].data
                     IN  /\ "Timestamp" \in DOMAIN data =>
                                data.Timestamp = client.timeStamp
                         /\ "Password" \in DOMAIN data =>
                                /\ data.Password = client.shortCodePassword
                                /\ "Timestamp" \in DOMAIN data
                         /\ "SecurityCredential" \in DOMAIN data =>
                                data.SecurityCredential = client.securityCredential)
    /\ [][/\ client' = client
          /\ \A c \in Callers :
                 calls'[c] # calls[c] =>
                     \A d \in Callers \ {c} : calls'[d] = calls[d]]_vars

C7_Witness ==
    \E c \in Callers, d \in Callers :
        /\ c # d
        /\ calls[c].pc = "post" /\ calls[c].method = "stkPushQuery"
        /\ calls[d].pc = "done" /\ calls[d].method = "mpesaRatiba"
        /\ calls[d].outcome.kind = "throw"
        /\ Posts(calls[d]) # {}

\* some required field of the configuration is absent
SomeAbsent(cfg) ==
    \/ \E k \in Range(TopKeys) : cfg.top[k] = Undefined
    \/ \E k \in Range(CredentialKeys) : cfg.credentials[k] = Undefined
    \/ \E k \in Range(AppInfoKeys) : cfg.appInfo[k] = Undefined

\* C8 as stated: construction fails with a configuration error exactly when a
\* required field is absent, and constructs a client when none is.
C8_FailsIffAbsent ==
    client.state # "none" =>
        /\ (client.state = "threw" /\ client.error = "MpesaException")
               <=> SomeAbsent(config)
        /\ ~SomeAbsent(config) => client.state = "constructed"

\* C8 amended: construction fails with a missing-parameter error exactly
\* when a required field is absent or falsy (an empty string); when every
\* field is truthy a client is constructed, unless the certificate cannot be
\* read or used, which fails construction with the error of that step.
C8_FailsIffFalsy ==
    client.state # "none" =>
        /\ (client.state = "threw" /\ client.error = "MpesaException")
               <=> BadCount(config) > 0
        /\ (BadCount(config) = 0 /\ certificate = "ok") =>
               /\ client.state = "constructed"
               /\ client.shortCodePassword =
                      Base64(config.top["businessShortCode"]
                             \o config.credentials["passKey"] \o client.timeStamp)
        /\ (BadCount(config) = 0 /\ certificate # "ok") =>
               (client.state = "threw" /\ client.error = "Error")

C8_Witness ==
    /\ client.state = "threw"
    /\ client.error = "MpesaException"
    /\ ~SomeAbsent(config)
    /\ config.appInfo["consumerSecret"] = ""

\* C9: a business method whose own POST is answered 200 with a body returns
\* that body.
C9_BodyReturnedUnchanged ==
    \A c \in Callers :
        (/\ calls[c].pc = "done"
         /\ calls[c].method \in BusinessMethods
         /\ calls[c].cur = calls[c].method
         /\ calls[c].resp.kind = "http"
         /\ calls[c].resp.status = 200
         /\ calls[c].resp.data # NullBody)
        => calls[c].outcome = Ok(calls[c].resp.data)

C9_Witness ==
    \E c \in Callers :
        /\ calls[c].pc = "done"
        /\ calls[c].method = "generateQRCode"
        /\ calls[c].outcome.kind = "ok"
        /\ calls[c].outcome.value = Body(Undefined, Undefined, "Rejected", Undefined)

\* C10: on any HTTP response, whatever its status, the dispatcher returns the
\* body and the status to the method that called it.
C10_DispatcherReturnsAnyStatus ==
    \A c \in Callers :
        calls[c].resp.kind = "http" =>
            /\ calls[c].disp.kind = "return"
            /\ calls[c].disp.response = calls[c].resp.data
            /\ calls[c].disp.httpCode = calls[c].resp.status

\* C11: every failure a caller sees, from the constructor or from a public
\* method, is an MpesaException.
C11_OnlyMpesaException ==
    /\ client.state = "threw" => client.error = "MpesaException"
    /\ \A c \in Callers :
           calls[c].outcome.kind = "throw" => calls[c].outcome.error = "MpesaException"

\* C12: queryOrgInfo sends IdentifierType 2 for type till and 4 for type
\* paybill, with the short code it was given; for any other type it throws
\* the unsupported-type error and sends nothing.
C12_IdentifierType ==
    \A c \in Callers :
        calls[c].method = "queryOrgInfo" =>
            LET call == calls[c]
                type == call.args["type"]
            IN  IF type \in {"till", "paybill"}
                THEN /\ call.log # <<>>
                     /\ \A i \in Posts(call) :
                            /\ call.log[i].url =
                                   client.baseUrl \o "/sfcverify/v1/query/info"
                            /\ call.log[i].data.IdentifierType =
                                   (IF type = "till" THEN 2 ELSE 4)
                            /\ call.log[i].data.Identifier = call.args["shortCode"]
                ELSE /\ call.log = <<>>
                     /\ call.pc = "done"
                     /\ call.outcome = Throw("Identifier type is not supported")

C12_Witness ==
    \E c \in Callers, d \in Callers :
        /\ calls[c].method = "queryOrgInfo" /\ calls[c].args["type"] = "paybill"
        /\ Posts(calls[c]) # {}
        /\ calls[d].method = "queryOrgInfo" /\ calls[d].args["type"] = "bank"
        /\ calls[d].pc = "done"

InitPhone ==
    /\ config \in ValidConfigs
    /\ certificate = "ok"
    /\ client = Construct(config, 0, certificate)
    /\ calls = NoCalls
    /\ phone \in {[pc |-> "called", input |-> x, output |-> Undefined] : x \in PhoneArgs}

\* formatPhoneNumber returns
FormatPhone ==
    /\ phone.pc = "called"
    /\ phone' = [phone EXCEPT !.pc = "returned", !.output = FormatPhoneArg(phone.input)]
    /\ UNCHANGED <<config, certificate, client, calls>>

NextPhone == FormatPhone

SpecPhone == InitPhone /\ [][NextPhone]_vars

\* C13: formatPhoneNumber returns null for an empty or falsy argument (the
\* empty string, 0); otherwise, on the text of the argument: 254 and the text
\* when it has 9 characters, 254 and the text without its first character
\* when it has 10, and the text itself for any other length.
C13_PhoneNormalization ==
    phone.pc = "returned" =>
        LET x == phone.input
            s == IF x.type = "number" THEN ToString(x.number) ELSE x.text
        IN  /\ (x = StringArg("") \/ x = NumberArg(0)) <=> phone.output = Undefined
            /\ (Len(s) = 9 /\ x # NumberArg(0)) => phone.output = "254" \o s
            /\ Len(s) = 10 => /\ phone.output = "254" \o Tail(s)
                              /\ Len(phone.output) = 12
            /\ (Len(s) \notin {0, 9, 10} /\ x # NumberArg(0)) => phone.output = s
            /\ x = StringArg("0712345678") => phone.output = "254712345678"
            /\ x = StringArg("712345678") => phone.output = "254712345678"
            /\ x = NumberArg(712345678) => phone.output = "254712345678"
            /\ x = StringArg("254712345678") => phone.output = "254712345678"

C13_Witness ==
    /\ phone.pc = "returned"
    /\ phone.input = NumberArg(1712345678)
    /\ phone.output = "254712345678"

\* the message of a method for an envelope with a body and a status other
\* than 200, as the claim has it
StatusMessage(r) ==
    IF ~Falsy(r.response.ResponseMessage) THEN r.response.ResponseMessage
    ELSE IF ~Falsy(r.response.errorMessage) THEN r.response.errorMessage
    ELSE "Request failed with status " \o ToString(r.httpCode)

\* the methods whose status check does not look at ResponseMessage
NoResponseMessageMethods == {"initiateB2BExpressCheckout", "mpesaRatiba"}

\* a business method returns only on a 200 answer with a body to its own POST
ReturnsOnlyOn200(call) ==
    (call.pc = "done" /\ call.outcome.kind = "ok" /\ call.method \in BusinessMethods) =>
        /\ call.cur = call.method
        /\ call.resp.kind = "http"
        /\ call.resp.status = 200
        /\ call.resp.data # NullBody

DispatcherFailed(call) ==
    call.resp.kind # "none" /\ ~AxiosResolves(call.resp)

\* the error body of a rejected POST has the field, and it is not empty
HasField(ans, field) ==
    /\ ans.kind = "http"
    /\ ans.data # NullBody
    /\ ~Falsy(IF field = "errorMessage" THEN ans.data.errorMessage
              ELSE ans.data.ResponseDescription)

\* C15: when the POST of the dispatcher fails, the call fails with the body's
\* errorMessage if it has one, else with the body's ResponseDescription if it
\* has one, else with the raw message of the transport error.
C15_FirstPresentMessage ==
    \A c \in Callers :
        DispatcherFailed(calls[c]) =>
            LET ans == calls[c].resp
            IN  /\ calls[c].pc = "done"
                /\ calls[c].outcome.kind = "throw"
                /\ calls[c].outcome.error = "MpesaException"
                /\ HasField(ans, "errorMessage") =>
                       calls[c].outcome.message = ans.data.errorMessage
                /\ (~HasField(ans, "errorMessage") /\ HasField(ans, "ResponseDescription")) =>
                       calls[c].outcome.message = ans.data.ResponseDescription
                /\ (~HasField(ans, "errorMessage") /\ ~HasField(ans, "ResponseDescription")) =>
                       calls[c].outcome.message =
                           IF ans.kind = "neterr" THEN ans.message
                           ELSE "Request failed with status code " \o ToString(ans.status)

C15_Witness ==
    \E c \in Callers :
        /\ calls[c].pc = "done"
        /\ calls[c].resp =
               Http(400, Body(Undefined, "Bad Request", "Rejected", Undefined))
        /\ calls[c].outcome = Throw("Bad Request")

QRCodeUrl == client.baseUrl \o "/" \o Endpoint("generateQRCode")

OrgInfoUrl == client.baseUrl \o "/" \o Endpoint("queryOrgInfo")

\* the organisation-info query of an invocation was answered 200 with a body
OrgInfoAnswered(call) ==
    /\ Len(call.log) >= 2
    /\ call.log[1].op = "GET"
    /\ ~Falsy(call.log[1].token)
    /\ call.log[2].op = "POST"
    /\ call.log[2].url = OrgInfoUrl
    /\ call.log[2].data = OrgInfoPayload(client.shortCodeType, client.businessShortCode)
    /\ call.log[2].answer.kind = "http"
    /\ call.log[2].answer.status = 200
    /\ call.log[2].answer.data # NullBody

\* C16: generateQRCode sends nothing after the organisation-info POST until
\* that query, made for the client's own shortcode type and shortcode with a
\* token of its own, was answered; the QR-code POST carries as MerchantName the
\* OrganizationName of that answer; and when the query or its token fetch
\* fails, generateQRCode fails with that error and no QR-code request is sent.
C16_OrgInfoBeforeQRCode ==
    \A c \in Callers :
        calls[c].method = "generateQRCode" =>
            LET call == calls[c]
            IN  /\ Len(call.log) >= 3 => OrgInfoAnswered(call)
                /\ \A i \in 1..Len(call.log) :
                       call.log[i].url = QRCodeUrl =>
                           /\ i = 4
                           /\ call.log[i].op = "POST"
                           /\ call.log[i].data.MerchantName =
                                  call.log[2].answer.data.OrganizationName
                /\ (call.pc = "done" /\ call.cur = "queryOrgInfo") =>
                       /\ \A i \in 1..Len(call.log) : call.log[i].url # QRCodeUrl
                       /\ Len(call.log) <= 2
                       /\ call.outcome.kind = "throw"
                       /\ call.outcome.error = "MpesaException"
                       /\ IF Len(call.log) = 1
                          THEN call.outcome.message \in TokenFailureMessages
                          ELSE IF ~AxiosResolves(call.resp)
                          THEN call.outcome.message = Dispatch(call.resp).message
                          ELSE call.outcome = CheckResponse("queryOrgInfo", call.disp)

C16_Witness ==
    \E c \in Callers :
        /\ calls[c].method = "generateQRCode"
        /\ calls[c].pc = "done"
        /\ calls[c].outcome.kind = "ok"
        /\ Len(calls[c].log) = 4
        /\ calls[c].log[2].answer.data.OrganizationName = "Acme Ltd"
        /\ calls[c].log[4].url = QRCodeUrl
        /\ calls[c].log[4].data.MerchantName = "Acme Ltd"

====
